---- MODULE Spec2Model ----
(***************************************************************************)
(* The retrieval-augmented generation pipeline of the KKUC assistant:      *)
(* SimplifiedRAGWorkflow (workflows/simplified_rag_workflow.py), its       *)
(* SearchTools (workflows/rag/tools/search_tools.py) and QueryTools        *)
(* (tools/rag/query_tools.py).                                             *)
(*                                                                         *)
(* Conventions.                                                            *)
(*  - A text (a Python str) is a sequence of tokens; WS is a whitespace    *)
(*    token.  str.strip() and "".join() are computed on that sequence.     *)
(*    The fixed Danish texts are one-token texts, written in ASCII.        *)
(*  - A passage is named by a document id; Content, Url and Title give its *)
(*    fields.  Content(d) is a sequence of characters, so content[:100] is *)
(*    computed, not assumed.                                               *)
(*  - A function that can raise returns [raised, value]; try/except is     *)
(*    modelled by what the handler returns.                                *)
(*  - Every external service (reformulation model, embedding + vector      *)
(*    store, lexical index, rerank service, generation model, the graph    *)
(*    runtime) answers nondeterministically: an error or one of a small    *)
(*    set of responses.                                                    *)
(***************************************************************************)
EXTENDS Integers, Sequences, FiniteSets, TLC

VARIABLES
    pc,                 \* position of the request inside run / the graph
    state,              \* the RAGState of the running graph
    result,             \* the Dict run returns to its caller
    raised,             \* TRUE when run let an exception reach its caller
    caught,             \* TRUE when run's own except branch produced result
    all_results,        \* step 2's local list, extended once per variant
    loop_i,             \* step 2's position in state["rewritten_queries"]
    query_in,           \* the user_query argument of run
    history_in,         \* the conversation_history argument of run
    rewrite_calls,      \* calls made to the reformulation model
    rewrite_failed,     \* the reformulation call raised
    raw_calls,          \* per hybrid_search call so far, the list each engine returned
    rerank_calls,       \* calls made to the external rerank service
    rerank_query,       \* the query argument of rerank_results
    rerank_candidates,  \* the results argument of rerank_results
    gen_calls,          \* calls made to the generation model
    hs_pc,              \* hybrid_search called on its own: position
    hs_vec,             \* ... the vector store's answer
    hs_bm,              \* ... the lexical index's answer
    hs_out,             \* ... what hybrid_search returned
    rerank_fallback,    \* rerank_results took its except branch in this request
    gen_failed,         \* the generation call raised
    th_pc,              \* per worker thread, its position in _get_bm25_index
    th_resp,            \* per worker thread, its local response.objects
    th_texts,           \* per worker thread, its local texts
    th_ret,             \* per worker thread, what _get_bm25_index returned
    th_used,            \* per worker thread, the document list bm25_search indexed into
    bm25_index,         \* self._bm25_index
    bm25_documents,     \* self._bm25_documents: a reference into doc_lists
    doc_lists,          \* the list objects created by self._bm25_documents = []
    index_builds,       \* BM25Okapi(...) constructions in this process
    corpus_fetches,     \* fetch_objects calls in this process
    rr_pc,              \* rerank_results called on its own: position
    rr_results,         \* ... its results argument
    rr_top_k,           \* ... its top_k argument
    rr_ext,             \* ... the rerank service's answer
    rr_out,             \* ... what rerank_results returned
    bm25_pc,            \* bm25_search called on its own: position
    bm25_ext,           \* ... the lexical index's answer
    bm25_limit,         \* ... its limit argument
    bm25_out,           \* ... what bm25_search returned
    checkpoints,        \* MemorySaver: per thread id, the saved AgentState
    session_threads,    \* server.session_threads: the session keys, in order of creation
    clients,            \* per conversation, how its client talks and its message list
    calendar_events,    \* the events inserted into the calendar
    last_request,       \* what the latest request to the agent did
    requests,           \* requests served by the agent
    cw_pc,              \* CalendarWorkflow.run called on its own: position
    cw_state,           \* ... its state argument
    cw_out,             \* ... what it returned
    rw_pc,              \* RAGWorkflow.run called on its own: position
    rw_ext,             \* ... the answers of the services it calls
    rw_out              \* ... what it returned

pipe_vars == <<pc, state, result, raised, caught, all_results, loop_i,
               query_in, history_in, rewrite_calls, rewrite_failed, raw_calls,
               rerank_calls, rerank_query, rerank_candidates, gen_calls,
               rerank_fallback, gen_failed>>

hs_vars == <<hs_pc, hs_vec, hs_bm, hs_out>>

idx_vars == <<th_pc, th_resp, th_texts, th_ret, th_used, bm25_index, bm25_documents,
              doc_lists, index_builds, corpus_fetches>>

rr_vars == <<rr_pc, rr_results, rr_top_k, rr_ext, rr_out>>

bm_vars == <<bm25_pc, bm25_ext, bm25_limit, bm25_out>>

ag_vars == <<checkpoints, session_threads, clients, calendar_events, last_request,
             requests>>

cw_vars == <<cw_pc, cw_state, cw_out>>

rw_vars == <<rw_pc, rw_ext, rw_out>>

\* the agent, the calendar workflow and the older RAG workflow
app_vars == <<ag_vars, cw_vars, rw_vars>>

\* everything outside the request pipeline
other_vars == <<hs_vars, idx_vars, rr_vars, bm_vars, app_vars>>

vars == <<pipe_vars, hs_vars, idx_vars, rr_vars, bm_vars, app_vars>>

----------------------------------------------------------------------------
(* Bounds of the model *)

\* turns of conversation history the caller supplies
MaxHist == 1
\* raw hits the engines return, all calls of one request together
MaxRaw == 2
\* hits one engine returns when hybrid_search is called on its own
MaxHits == 2
\* entries in one response of the rerank service
MaxRerank == 1
\* worker threads that call the lexical search in one process
MaxThreads == 2
\* candidates handed to rerank_results when it is called on its own
MaxCands == 2
\* entries in the rerank service's response when rerank_results is called on its own
MaxResp == 2
\* the largest limit bm25_search is called with on its own
MaxLimit == 2
\* requests the agent serves for a conversation on its own
MaxRequests == 3
\* free slots the calendar offers
MaxSlots == 2
\* requests the agent serves when two conversations run side by side
MaxSideBySide == 2
\* chunks the rerank step hands to RAGWorkflow's grouping
MaxChunks == 2

(* Program constants *)

\* content[:100] in both deduplication keys
KeyPrefixLen == 100
\* hybrid_search(query, limit=15)
SearchLimit == 15
\* rerank_results(..., top_k=15)
RerankTopK == 15
\* state["search_results"][:10]
GenTopChunks == 10

----------------------------------------------------------------------------
(* Texts *)

WS == " "
None == <<"None">>
EmptyText == <<>>

\* "Jeg kunne desvaerre ikke finde relevant information ..." (step 3, no results)
NoInfoText == <<"Jeg kunne desvaerre ikke finde relevant information om dette emne paa KKUC's hjemmeside.">>
\* the synthesizer's except branch
GenApologyText == <<"Beklager, jeg kunne ikke generere et svar. Proev venligst igen.">>
\* run's except branch
RunApologyText == <<"Beklager, der opstod en fejl. Proev venligst igen.">>

Min(a, b) == IF a < b THEN a ELSE b

\* Python s[:n] for n >= 0
Take(s, n) == SubSeq(s, 1, Min(Len(s), n))

RECURSIVE lstrip(_)
lstrip(t) == IF t # <<>> /\ Head(t) = WS THEN lstrip(Tail(t)) ELSE t

RECURSIVE rstrip(_)
rstrip(t) ==
    IF t # <<>> /\ t[Len(t)] = WS THEN rstrip(SubSeq(t, 1, Len(t) - 1)) ELSE t

\* str.strip()
strip(t) == rstrip(lstrip(t))

\* "".join(chunks)
RECURSIVE join(_)
join(chunks) == IF chunks = <<>> THEN <<>> ELSE Head(chunks) \o join(Tail(chunks))

----------------------------------------------------------------------------
(* The knowledge store *)

Rep(c, n) == [i \in 1..n |-> c]

\* The passages of the store, in the order fetch_objects returns them.
\*   A1, A2: same URL, same first 100 characters, different suffix
\*   B:      same URL, differs from A1 in the 100th character
\*   C:      the content of A1 under another URL
Corpus == <<"A1", "A2", "B", "C">>

Docs == {Corpus[i] : i \in 1..Len(Corpus)}

Content(d) ==
    CASE d = "A1" -> Rep("a", 100) \o <<"x">>
      [] d = "A2" -> Rep("a", 100) \o <<"y">>
      [] d = "B"  -> Rep("a", 99) \o <<"b", "x">>
      [] d = "C"  -> Rep("a", 100) \o <<"x">>

Url(d) == IF d = "C" THEN "url2" ELSE "url1"

Title(d) == IF d = "C" THEN "title2" ELSE "title1"

\* SearchResult(content, source_url, page_title, score); stage records which
\* call produced the score.
SearchResult(d, s, st) == [doc |-> d, score |-> s, stage |-> st]

----------------------------------------------------------------------------
(* SearchTools *)

\* (source_url, content[:100]) of every passage of the store
DocKey == [d \in Docs |-> <<Url(d), Take(Content(d), KeyPrefixLen)>>]

\* key = (result.source_url, result.content[:100])
Key(r) == DocKey[r.doc]

\* The first-seen loop over seen/unique shared by hybrid_search and
\* _deduplicate_results.
RECURSIVE DedupFrom(_, _, _)
DedupFrom(results, seen, unique) ==
    IF results = <<>> THEN unique
    ELSE LET r == Head(results)
         IN IF Key(r) \notin seen
            THEN DedupFrom(Tail(results), seen \cup {Key(r)}, Append(unique, r))
            ELSE DedupFrom(Tail(results), seen, unique)

\* sorted(xs, key=lambda x: x.score, reverse=True): stable, so entries of
\* equal score keep their order.
RECURSIVE InsertDesc(_, _)
InsertDesc(sorted, x) ==
    IF sorted = <<>> THEN <<x>>
    ELSE IF Head(sorted).score >= x.score
         THEN <<Head(sorted)>> \o InsertDesc(Tail(sorted), x)
         ELSE <<x>> \o sorted

RECURSIVE SortFrom(_, _)
SortFrom(todo, acc) ==
    IF todo = <<>> THEN acc ELSE SortFrom(Tail(todo), InsertDesc(acc, Head(todo)))

sorted_by_score_desc(xs) == SortFrom(xs, <<>>)

\* Faulty variant of vector_search: no try/except around the calls.
vector_search_unguarded(query, limit, ext) ==
    [raised |-> ext.err,
     value |-> IF ext.err THEN <<>>
               ELSE [i \in 1..Len(ext.objs) |->
                       SearchResult(ext.objs[i].doc, 1 - ext.objs[i].distance, "vector")]]

\* vector_search: ext is what the embedding service and the vector store
\* answer: an error of either, or the objects found, each with a distance.
vector_search(query, limit, ext) ==
    IF ext.err
    THEN [raised |-> FALSE, value |-> <<>>]
    ELSE [raised |-> FALSE,
          value |-> [i \in 1..Len(ext.objs) |->
                       SearchResult(ext.objs[i].doc, 1 - ext.objs[i].distance, "vector")]]

\* Faulty variant of bm25_search: scores[idx] >= 0.
bm25_search_nonnegative(query, limit, ext) ==
    IF ext.err
    THEN [raised |-> FALSE, value |-> <<>>]
    ELSE LET scores == ext.scores
             indexed == [i \in 1..Len(scores) |-> [idx |-> i, score |-> scores[i]]]
             top_indices == Take(sorted_by_score_desc(indexed), limit)
             positive == SelectSeq(top_indices, LAMBDA e : e.score >= 0)
         IN [raised |-> FALSE,
             value |-> [k \in 1..Len(positive) |->
                          SearchResult(Corpus[positive[k].idx], positive[k].score, "bm25")]]

\* bm25_search: ext is an error of the index build or lookup, or the scores
\* get_scores gives the documents of the index, position by position.
bm25_search(query, limit, ext) ==
    IF ext.err
    THEN [raised |-> FALSE, value |-> <<>>]
    ELSE LET scores == ext.scores
             indexed == [i \in 1..Len(scores) |-> [idx |-> i, score |-> scores[i]]]
             top_indices == Take(sorted_by_score_desc(indexed), limit)
             positive == SelectSeq(top_indices, LAMBDA e : e.score > 0)
         IN [raised |-> FALSE,
             value |-> [k \in 1..Len(positive) |->
                          SearchResult(Corpus[positive[k].idx], positive[k].score, "bm25")]]

\* Faulty variant of hybrid_search: bm25_results + vector_results.
hybrid_search_lexical_first(query, limit, vec_ext, bm_ext) ==
    LET vector_results == vector_search(query, limit, vec_ext)
        bm25_results == bm25_search(query, limit, bm_ext)
    IN IF vector_results.raised \/ bm25_results.raised
       THEN [raised |-> TRUE, value |-> <<>>]
       ELSE [raised |-> FALSE,
             value |-> DedupFrom(bm25_results.value \o vector_results.value, {}, <<>>)]

hybrid_search(query, limit, vec_ext, bm_ext) ==
    LET vector_results == vector_search(query, limit, vec_ext)
        bm25_results == bm25_search(query, limit, bm_ext)
    IN IF vector_results.raised \/ bm25_results.raised
       THEN [raised |-> TRUE, value |-> <<>>]
       ELSE [raised |-> FALSE,
             value |-> DedupFrom(vector_results.value \o bm25_results.value, {}, <<>>)]

\* Faulty variant of rerank_results: the except branch returns the candidates
\* in their given order.
rerank_fallback_unsorted(query, results, top_k, ext) ==
    IF results = <<>>
    THEN [raised |-> FALSE, value |-> <<>>, called |-> FALSE, fallback |-> FALSE]
    ELSE IF ext.err \/ \E i \in 1..Len(ext.results) : ext.results[i].index >= Len(results)
         THEN [raised |-> FALSE, value |-> Take(results, top_k),
               called |-> TRUE, fallback |-> TRUE]
         ELSE [raised |-> FALSE,
               value |-> [i \in 1..Len(ext.results) |->
                            SearchResult(results[ext.results[i].index + 1].doc,
                                         ext.results[i].relevance_score, "rerank")],
               called |-> TRUE, fallback |-> FALSE]

\* Faulty variant of rerank_results: no check for an empty candidate list.
rerank_without_empty_check(query, results, top_k, ext) ==
    IF ext.err \/ \E i \in 1..Len(ext.results) : ext.results[i].index >= Len(results)
    THEN [raised |-> FALSE, value |-> Take(sorted_by_score_desc(results), top_k),
          called |-> TRUE, fallback |-> TRUE]
    ELSE [raised |-> FALSE,
          value |-> [i \in 1..Len(ext.results) |->
                       SearchResult(results[ext.results[i].index + 1].doc,
                                    ext.results[i].relevance_score, "rerank")],
          called |-> TRUE, fallback |-> FALSE]

\* rerank_results: ext is the rerank service's answer, an error or a list of
\* (index, relevance_score) with 0-based indexes into the documents sent.
\* called tells whether the service was invoked, fallback whether the except
\* branch produced the value.
rerank_results(query, results, top_k, ext) ==
    IF results = <<>>
    THEN [raised |-> FALSE, value |-> <<>>, called |-> FALSE, fallback |-> FALSE]
    ELSE IF ext.err \/ \E i \in 1..Len(ext.results) : ext.results[i].index >= Len(results)
         THEN [raised |-> FALSE,
               value |-> Take(sorted_by_score_desc(results), top_k),
               called |-> TRUE,
               fallback |-> TRUE]
         ELSE [raised |-> FALSE,
               value |-> [i \in 1..Len(ext.results) |->
                            SearchResult(results[ext.results[i].index + 1].doc,
                                         ext.results[i].relevance_score, "rerank")],
               called |-> TRUE,
               fallback |-> FALSE]

----------------------------------------------------------------------------
(* What the external services can answer *)

SeqsUpTo(S, n) == UNION {[1..k -> S] : k \in 0..n}

Distinct(s, f(_)) == \A i, j \in 1..Len(s) : i # j => f(s[i]) # f(s[j])

DocOf(o) == o.doc

\* near_vector: at most n distinct objects, nearest first
VecObjs(dists, n) ==
    {s \in SeqsUpTo([doc : Docs, distance : dists], n) :
        /\ Distinct(s, DocOf)
        /\ \A i \in 1..Len(s) - 1 : s[i].distance <= s[i + 1].distance}

VecAnswers(dists, n) ==
    {[err |-> TRUE, objs |-> <<>>]} \cup {[err |-> FALSE, objs |-> o] : o \in VecObjs(dists, n)}

\* get_scores: one score per document, at most n of them positive
BmScoreVectors(vals, n) ==
    {s \in [1..Len(Corpus) -> vals \cup {0}] :
        Cardinality({i \in 1..Len(Corpus) : s[i] > 0}) <= n}

BmAnswers(vals, n) ==
    {[err |-> TRUE, scores |-> <<>>]} \cup
    {[err |-> FALSE, scores |-> s] : s \in BmScoreVectors(vals, n)}

VecHits(ext) == IF ext.err THEN 0 ELSE Len(ext.objs)

\* the rerank service asked for top_n of n documents: an error, or up to
\* Min(m, top_n) entries, no document ranked twice; index n is one past the
\* documents sent
RerankResponses(n, top_n, relevances, m) ==
    {[err |-> TRUE, results |-> <<>>]} \cup
    {[err |-> FALSE, results |-> r] :
        r \in {x \in SeqsUpTo([index : 0..n, relevance_score : relevances], Min(m, top_n)) :
                  \A i, j \in 1..Len(x) : i # j => x[i].index # x[j].index}}

\* candidate lists of up to n distinct passages; a semantic score is
\* 1 - distance, a lexical score a positive BM25 score
CandidateLists(n) ==
    {x \in SeqsUpTo([doc : Docs, score : {1, 2}, stage : {"vector", "bm25"}], n) :
        /\ \A i, j \in 1..Len(x) : i # j => x[i].doc # x[j].doc
        /\ \A i \in 1..Len(x) : x[i].stage = "vector" => x[i].score = 1}

\* the rerank service: an error, or up to MaxRerank entries; index n is one
\* past the n documents sent
RerankAnswers(n, relevances) ==
    {[err |-> TRUE, results |-> <<>>]} \cup
    {[err |-> FALSE, results |-> r] :
        r \in SeqsUpTo([index : 0..n, relevance_score : relevances], MaxRerank)}

----------------------------------------------------------------------------
(* QueryTools *)

\* Faulty variant of rewrite_single_query: returns the query without calling
\* the model when there is no history.
rewrite_skips_without_history(query, conversation_history, ext) ==
    IF conversation_history = <<>>
    THEN [raised |-> FALSE, value |-> query, with_context |-> FALSE,
          calls |-> 0, failed |-> FALSE]
    ELSE [raised |-> FALSE,
          value |-> IF ext.err THEN query ELSE strip(ext.content),
          with_context |-> TRUE,
          calls |-> 1,
          failed |-> ext.err]

\* Faulty variant of rewrite_single_query: no try/except around the call.
rewrite_unguarded(query, conversation_history, ext) ==
    [raised |-> ext.err,
     value |-> IF ext.err THEN query ELSE strip(ext.content),
     with_context |-> conversation_history # <<>>,
     calls |-> 1,
     failed |-> ext.err]

\* rewrite_single_query: ext is the reformulation model's answer, an error
\* (timeout, no usable content) or the content of the first choice.  The
\* model is called with the context prompt when there is history and with
\* the plain prompt when there is none.
rewrite_single_query(query, conversation_history, ext) ==
    [raised |-> FALSE,
     value |-> IF ext.err THEN query ELSE strip(ext.content),
     with_context |-> conversation_history # <<>>,
     calls |-> 1,
     failed |-> ext.err]

RewriteAnswers(query) ==
    {[err |-> TRUE, content |-> <<>>]} \cup
    {[err |-> FALSE, content |-> c] : c \in {<<WS, "Nicolai", "Halberg", "telefonnummer", WS>>, <<WS>>}}

----------------------------------------------------------------------------
(* SimplifiedRAGWorkflow *)

\* RAGState: every key is replaced by what a node returns, except messages,
\* whose reducer is operator.add: the returned list is appended to the list
\* the graph holds.
add(left, right) == left \o right

NodeReturn(held, returned) ==
    [returned EXCEPT !.messages = add(held.messages, returned.messages)]

\* initial_state of run, as the graph holds it after reading its input
initial_state(user_query, conversation_history) ==
    [query |-> user_query,
     rewritten_queries |-> <<>>,
     search_results |-> <<>>,
     validated_url |-> None,
     validated_chunks |-> <<>>,
     answer |-> EmptyText,
     source_url |-> None,
     page_title |-> None,
     description |-> None,
     messages |-> add(<<>>, conversation_history)]

\* Faulty variant of step1_rewrite_query: [rewritten_query, query].
step1_rewritten_first(st, ext) ==
    LET rewritten_query == rewrite_single_query(st.query, st.messages, ext)
    IN [raised |-> rewritten_query.raised,
        value |-> [st EXCEPT !.rewritten_queries = <<rewritten_query.value, st.query>>],
        calls |-> rewritten_query.calls,
        failed |-> rewritten_query.failed]

step1_rewrite_query(st, ext) ==
    LET rewritten_query == rewrite_single_query(st.query, st.messages, ext)
    IN [raised |-> rewritten_query.raised,
        value |-> [st EXCEPT !.rewritten_queries = <<st.query, rewritten_query.value>>],
        calls |-> rewritten_query.calls,
        failed |-> rewritten_query.failed]

\* Faulty variant of _deduplicate_results: key = (source_url, content).
RECURSIVE DedupFullContentFrom(_, _, _)
DedupFullContentFrom(results, seen, unique) ==
    IF results = <<>> THEN unique
    ELSE LET r == Head(results)
             key == <<Url(r.doc), Content(r.doc)>>
         IN IF key \notin seen
            THEN DedupFullContentFrom(Tail(results), seen \cup {key}, Append(unique, r))
            ELSE DedupFullContentFrom(Tail(results), seen, unique)

deduplicate_by_full_content(results) == DedupFullContentFrom(results, {}, <<>>)

deduplicate_results(results) == DedupFrom(results, {}, <<>>)

\* Faulty variant of step2_hybrid_search_rerank: reranks against the last
\* query variant.
step2_rerank_last_variant(st, results, ext) ==
    LET unique_results == deduplicate_results(results)
        query == st.rewritten_queries[Len(st.rewritten_queries)]
        reranked_results == rerank_results(query, unique_results, RerankTopK, ext)
    IN [raised |-> reranked_results.raised,
        value |-> [st EXCEPT !.search_results = reranked_results.value],
        query |-> query,
        candidates |-> unique_results,
        calls |-> IF reranked_results.called THEN 1 ELSE 0,
        fallback |-> reranked_results.fallback]

\* the second half of step2_hybrid_search_rerank: deduplicate, rerank, store
step2_rerank(st, results, ext) ==
    LET unique_results == deduplicate_results(results)
        reranked_results == rerank_results(st.query, unique_results, RerankTopK, ext)
    IN [raised |-> reranked_results.raised,
        value |-> [st EXCEPT !.search_results = reranked_results.value],
        query |-> st.query,
        candidates |-> unique_results,
        calls |-> IF reranked_results.called THEN 1 ELSE 0,
        fallback |-> reranked_results.fallback]

\* Faulty variant of _generate_answer_with_selection: no try/except around
\* the model call.
generate_answer_unguarded(query, chunks, conversation_history, ext) ==
    [raised |-> ext.err,
     value |-> IF ext.err THEN EmptyText ELSE strip(join(ext.chunks)),
     failed |-> ext.err]

\* _generate_answer_with_selection: ext is the generation model's answer, an
\* error or the contents of the chunks it streams.
generate_answer_with_selection(query, chunks, conversation_history, ext) ==
    [raised |-> FALSE,
     value |-> IF ext.err THEN GenApologyText ELSE strip(join(ext.chunks)),
     failed |-> ext.err]

\* Faulty variant of step3_validate_and_generate: no check for an empty
\* result list.
step3_without_empty_check(st, ext) ==
    LET top_chunks == Take(st.search_results, GenTopChunks)
        answer == generate_answer_with_selection(st.query, top_chunks, st.messages, ext)
    IN [raised |-> answer.raised,
        value |-> [st EXCEPT !.answer = answer.value,
                             !.source_url = None,
                             !.page_title = None,
                             !.description = None,
                             !.validated_url = None,
                             !.validated_chunks = top_chunks],
        calls |-> 1,
        failed |-> answer.failed]

\* Faulty variant of step3_validate_and_generate: the chunks handed to the
\* model are taken out of the ranked results.
step3_consumes_results(st, ext) ==
    IF st.search_results = <<>>
    THEN step3_without_empty_check(st, ext)
    ELSE LET out == step3_without_empty_check(st, ext)
         IN [out EXCEPT !.value.search_results =
                           SubSeq(st.search_results, Min(Len(st.search_results), GenTopChunks) + 1,
                                  Len(st.search_results))]

\* Faulty variant of step3_validate_and_generate: the empty branch answers
\* with the apology text.
step3_empty_apologises(st, ext) ==
    IF st.search_results = <<>>
    THEN [raised |-> FALSE,
          value |-> [st EXCEPT !.answer = GenApologyText,
                               !.source_url = None,
                               !.page_title = None,
                               !.description = None,
                               !.validated_url = None,
                               !.validated_chunks = <<>>],
          calls |-> 0,
          failed |-> FALSE]
    ELSE step3_without_empty_check(st, ext)

step3_validate_and_generate(st, ext) ==
    IF st.search_results = <<>>
    THEN [raised |-> FALSE,
          value |-> [st EXCEPT !.answer = NoInfoText,
                               !.source_url = None,
                               !.page_title = None,
                               !.description = None,
                               !.validated_url = None,
                               !.validated_chunks = <<>>],
          calls |-> 0,
          failed |-> FALSE]
    ELSE LET top_chunks == Take(st.search_results, GenTopChunks)
             answer == generate_answer_with_selection(st.query, top_chunks, st.messages, ext)
         IN [raised |-> answer.raised,
             value |-> [st EXCEPT !.answer = answer.value,
                                  !.source_url = None,
                                  !.page_title = None,
                                  !.description = None,
                                  !.validated_url = None,
                                  !.validated_chunks = top_chunks],
             calls |-> 1,
             failed |-> answer.failed]

\* run, after graph.invoke: the Dict built from final_state
run_result(final_state) ==
    [answer |-> final_state.answer,
     source_url |-> final_state.source_url,
     page_title |-> final_state.page_title,
     description |-> final_state.description]

\* Faulty variant of run's except branch: the synthesizer's text.
run_except_synthesizer_text ==
    [raised |-> FALSE,
     value |-> [answer |-> GenApologyText,
                source_url |-> None,
                page_title |-> None,
                description |-> None]]

\* run, except Exception: the exception stops here
run_except ==
    [raised |-> FALSE,
     value |-> [answer |-> RunApologyText,
                source_url |-> None,
                page_title |-> None,
                description |-> None]]

\* what the generation model streams: blanks only, an answer from the
\* conversation, or an answer that starts with a link
GenStreams ==
    {<<<<WS>>, <<WS>>>>, <<<<WS, "Svar">>, <<"fra", "samtalen", WS>>>>} \cup
    {<<<<"LINK", u>>, <<"Svar">>>> : u \in {"url1", "url9"}}

GenAnswers ==
    {[err |-> TRUE, chunks |-> <<>>]} \cup {[err |-> FALSE, chunks |-> c] : c \in GenStreams}

----------------------------------------------------------------------------
(* Callers' inputs *)

Queries == {<<"hvad", "er", "hans", "nummer">>}

TurnText == <<"t1", "t2", "t3", "t4">>

\* a conversation alternates user and assistant turns
Turn(i) == [type |-> IF i % 2 = 1 THEN "human" ELSE "ai", content |-> <<TurnText[i]>>]

Histories == {[i \in 1..n |-> Turn(i)] : n \in 0..MaxHist}

NoResult == [answer |-> EmptyText, source_url |-> None, page_title |-> None, description |-> None]

----------------------------------------------------------------------------
(* One request through run *)

HsIdle ==
    /\ hs_pc = "off"
    /\ hs_vec = [err |-> TRUE, objs |-> <<>>]
    /\ hs_bm = [err |-> TRUE, scores |-> <<>>]
    /\ hs_out = [raised |-> FALSE, value |-> <<>>]

PipeIdle ==
    /\ pc = "idle"
    /\ state = initial_state(EmptyText, <<>>)
    /\ result = NoResult
    /\ raised = FALSE
    /\ caught = FALSE
    /\ all_results = <<>>
    /\ loop_i = 0
    /\ query_in = EmptyText
    /\ history_in = <<>>
    /\ rewrite_calls = 0
    /\ rewrite_failed = FALSE
    /\ raw_calls = <<>>
    /\ rerank_calls = 0
    /\ rerank_query = EmptyText
    /\ rerank_candidates = <<>>
    /\ gen_calls = 0
    /\ rerank_fallback = FALSE
    /\ gen_failed = FALSE

Threads == 1..MaxThreads

\* what a worker thread holds before _get_bm25_index returned to it
NoReturn == [raised |-> FALSE, index |-> None, documents |-> 0]

\* SearchTools.__init__: no index, no document list (reference 0 is None)
IndexIdle ==
    /\ th_pc = [t \in Threads |-> "idle"]
    /\ th_resp = [t \in Threads |-> <<>>]
    /\ th_texts = [t \in Threads |-> <<>>]
    /\ th_ret = [t \in Threads |-> NoReturn]
    /\ th_used = [t \in Threads |-> <<>>]
    /\ bm25_index = None
    /\ bm25_documents = 0
    /\ doc_lists = <<>>
    /\ index_builds = 0
    /\ corpus_fetches = 0

RerankIdle ==
    /\ rr_pc = "off"
    /\ rr_results = <<>>
    /\ rr_top_k = 0
    /\ rr_ext = [err |-> TRUE, results |-> <<>>]
    /\ rr_out = [raised |-> FALSE, value |-> <<>>, called |-> FALSE, fallback |-> FALSE]

Bm25Idle ==
    /\ bm25_pc = "off"
    /\ bm25_ext = [err |-> TRUE, scores |-> <<>>]
    /\ bm25_limit = 0
    /\ bm25_out = [raised |-> FALSE, value |-> <<>>]

----------------------------------------------------------------------------
(* The agent (agent.py) behind the server (server.py).                      *)
(* The content of a user message is a text whose tokens are characters, so  *)
(* str.lower(), str.strip(), int() and the keyword test are computed.  "oe" *)
(* and "ae" stand for the Danish letters.  The texts the agent writes are   *)
(* short token lists: a tag for the fixed text and the slots it mentions.   *)
(* A calendar slot is named by a string.                                    *)

UpperCase == <<"A", "B", "C", "D", "E", "F", "G", "H", "I", "J", "K", "L", "M",
               "N", "O", "P", "Q", "R", "S", "T", "U", "V", "W", "X", "Y", "Z">>
LowerCase == <<"a", "b", "c", "d", "e", "f", "g", "h", "i", "j", "k", "l", "m",
               "n", "o", "p", "q", "r", "s", "t", "u", "v", "w", "x", "y", "z">>
Digits == <<"0", "1", "2", "3", "4", "5", "6", "7", "8", "9">>

\* position of c in s, 0 when absent
IndexOf(s, c) ==
    IF \E i \in 1..Len(s) : s[i] = c THEN CHOOSE i \in 1..Len(s) : s[i] = c ELSE 0

\* str.lower()
lower(t) ==
    [i \in 1..Len(t) |->
        IF IndexOf(UpperCase, t[i]) > 0 THEN LowerCase[IndexOf(UpperCase, t[i])] ELSE t[i]]

\* the Python test  kw in t  on two strings
Contains(t, kw) ==
    \E i \in 0..(Len(t) - Len(kw)) : SubSeq(t, i + 1, i + Len(kw)) = kw

IsDigits(t) == t # <<>> /\ \A i \in 1..Len(t) : IndexOf(Digits, t[i]) > 0

RECURSIVE DecimalValue(_)
DecimalValue(t) ==
    IF t = <<>> THEN 0
    ELSE 10 * DecimalValue(SubSeq(t, 1, Len(t) - 1)) + (IndexOf(Digits, t[Len(t)]) - 1)

\* an int that reads 1 where it should raise ValueError
int_lenient(t) ==
    LET u == strip(t)
        signed == u # <<>> /\ u[1] \in {"+", "-"}
        digits == IF signed THEN Tail(u) ELSE u
    IN  IF IsDigits(digits)
        THEN [raised |-> FALSE,
              value |-> IF signed /\ u[1] = "-" THEN 0 - DecimalValue(digits)
                        ELSE DecimalValue(digits)]
        ELSE [raised |-> FALSE, value |-> 1]

\* int(s): optional whitespace, optional sign, decimal digits; ValueError otherwise
int(t) ==
    LET u == strip(t)
        signed == u # <<>> /\ u[1] \in {"+", "-"}
        digits == IF signed THEN Tail(u) ELSE u
    IN  IF IsDigits(digits)
        THEN [raised |-> FALSE,
              value |-> IF signed /\ u[1] = "-" THEN 0 - DecimalValue(digits)
                        ELSE DecimalValue(digits)]
        ELSE [raised |-> TRUE, value |-> 0]

HumanMessage(content) == [role |-> "human", content |-> content]
AIMessage(content) == [role |-> "ai", content |-> content]

\* booking_data: None, a dict with some of the keys step, available_slots and
\* selected_slot, or (tag "missing") the value of a channel never written
PyDict(keys, step, available_slots, selected_slot) ==
    [tag |-> "dict", keys |-> keys, step |-> step,
     available_slots |-> available_slots, selected_slot |-> selected_slot]
EmptyDict == PyDict({}, "", <<>>, "")
PyNone == [EmptyDict EXCEPT !.tag = "None"]
Missing == [EmptyDict EXCEPT !.tag = "missing"]

\* a reducer in which the stored values win over the returned ones
merge_dict_left_wins(left, right) ==
    IF right.tag = "None" THEN left
    ELSE IF left.tag = "None" THEN right
    ELSE PyDict(left.keys \cup right.keys,
                IF "step" \in left.keys THEN left.step ELSE right.step,
                IF "available_slots" \in left.keys THEN left.available_slots
                ELSE right.available_slots,
                IF "selected_slot" \in left.keys THEN left.selected_slot
                ELSE right.selected_slot)

\* the reducer of booking_data
merge_dict(left, right) ==
    IF right.tag = "None" THEN left
    ELSE IF left.tag = "None" THEN right
    ELSE PyDict(left.keys \cup right.keys,
                IF "step" \in right.keys THEN right.step ELSE left.step,
                IF "available_slots" \in right.keys THEN right.available_slots
                ELSE left.available_slots,
                IF "selected_slot" \in right.keys THEN right.selected_slot
                ELSE left.selected_slot)

\* How the graph applies a node's return to AgentState: messages through
\* operator.add, booking_data through merge_dict.  Optional[Dict] has no
\* empty value, so the booking_data channel starts without a value and its
\* first write, None included, is stored as it is.
ApplyUpdate(held, returned) ==
    [messages |-> add(held.messages, returned.messages),
     booking_data |->
        IF held.booking_data.tag = "missing" THEN returned.booking_data
        ELSE merge_dict(held.booking_data, returned.booking_data)]

\* a thread nothing was saved for
FreshState == [messages |-> <<>>, booking_data |-> Missing]

\* state.get("booking_data") / state.get("booking_data", {})
GetBookingData(st, default) ==
    IF st.booking_data.tag = "missing" THEN default ELSE st.booking_data

\* booking_data.get("step", default)
GetStep(bd, default) == IF "step" \in bd.keys THEN bd.step ELSE default

booking_keywords ==
    {<<"b", "o", "o", "k">>, <<"t", "i", "d">>, <<"a", "f", "t", "a", "l", "e">>,
     <<"m", "oe", "d", "e">>, <<"b", "o", "o", "k", "i", "n", "g">>,
     <<"t", "i", "r", "s", "d", "a", "g">>, <<"o", "n", "s", "d", "a", "g">>}

CalendarWord == <<"c", "a", "l", "e", "n", "d", "a", "r">>

\* what the intent classifier may answer
LlmAnswers ==
    {[err |-> TRUE, content |-> <<>>],
     [err |-> FALSE, content |-> <<"C">> \o Tail(CalendarWord) \o <<WS>>],
     [err |-> FALSE, content |-> <<"r", "a", "g">>]}

should_use_calendar(st, llm) ==
    LET booking_data == GetBookingData(st, PyNone)
        last_message == st.messages[Len(st.messages)]
        user_input_lower == strip(lower(last_message.content))
    IN  IF /\ booking_data.tag = "dict"
           /\ booking_data.keys # {}
           /\ GetStep(booking_data, "") \in {"select", "confirm"}
        THEN "calendar"
        ELSE IF last_message.role = "human"
        THEN IF \E keyword \in booking_keywords : Contains(user_input_lower, keyword)
             THEN "calendar"
             ELSE IF llm.err THEN "rag"
             ELSE IF Contains(lower(strip(llm.content)), CalendarWord) THEN "calendar"
             ELSE "rag"
        ELSE "rag"

\* CalendarTools.book_appointment: the insert and the read-back both succeed,
\* the insert is refused, the read-back is refused after the insert, or
\* another exception leaves the function before the insert
BookAnswers == {"verified", "insert_refused", "readback_refused", "raises"}

book_appointment(slot, ext) ==
    [raised |-> ext = "raises",
     verified |-> ext = "verified",
     inserted |-> IF ext \in {"verified", "readback_refused"} THEN <<slot>> ELSE <<>>]

\* a confirm branch that takes a number for a yes
affirmative_or_number ==
    {<<"j", "a">>, <<"y", "e", "s">>, <<"y">>, <<"o", "k">>,
     <<"b", "e", "k", "r", "ae", "f", "t">>, <<"2">>}

affirmative ==
    {<<"j", "a">>, <<"y", "e", "s">>, <<"y">>, <<"o", "k">>,
     <<"b", "e", "k", "r", "ae", "f", "t">>}

ErrorMessage == AIMessage(<<"[Beklager, der opstod en fejl]">>)

\* the return of a node, with what it did to the calendar
NodeResult(messages, booking_data, step, inserted, offered) ==
    [raised |-> FALSE, messages |-> messages, booking_data |-> booking_data,
     step |-> step, inserted |-> inserted, offered |-> offered, history |-> <<>>]

calendar_handler_node(st, fetch, book) ==
    LET user_input == st.messages[Len(st.messages)].content
        booking_data == GetBookingData(st, EmptyDict)
        current_step == GetStep(booking_data, "start")
        except == NodeResult(<<ErrorMessage>>, PyNone, current_step, <<>>, <<>>)
    IN  IF booking_data.tag = "None"
        THEN \* None.get(...) before the try
             [NodeResult(<<>>, PyNone, "", <<>>, <<>>) EXCEPT !.raised = TRUE]
        ELSE IF current_step = "start"
        THEN IF fetch.raised THEN except
             ELSE IF fetch.slots # <<>>
             THEN NodeResult(<<AIMessage(<<"[Ledige tider]">> \o fetch.slots)>>,
                             PyDict({"step", "available_slots"}, "select", fetch.slots, ""),
                             current_step, <<>>, fetch.slots)
             ELSE NodeResult(<<AIMessage(<<"[ingen ledige tider]">>)>>, PyNone,
                             current_step, <<>>, fetch.slots)
        ELSE IF current_step = "select"
        THEN LET available_slots == IF "available_slots" \in booking_data.keys
                                    THEN booking_data.available_slots ELSE <<>>
                 selection == int(strip(user_input))
             IN  IF selection.raised
                 THEN NodeResult(<<AIMessage(<<"[Ugyldigt input]">>)>>, booking_data,
                                 current_step, <<>>, <<>>)
                 ELSE IF 1 <= selection.value /\ selection.value <= Len(available_slots)
                 THEN NodeResult(
                          <<AIMessage(<<"[Du har valgt]", available_slots[selection.value]>>)>>,
                          PyDict({"step", "available_slots", "selected_slot"}, "confirm",
                                 available_slots, available_slots[selection.value]),
                          current_step, <<>>, <<>>)
                 ELSE NodeResult(<<AIMessage(<<"[Ugyldigt valg]">>)>>, booking_data,
                                 current_step, <<>>, <<>>)
        ELSE IF current_step = "confirm"
        THEN IF strip(lower(user_input)) \in affirmative
             THEN IF "selected_slot" \in booking_data.keys /\ booking_data.selected_slot # ""
                  THEN LET booking_result ==
                               book_appointment(booking_data.selected_slot, book)
                       IN  IF booking_result.raised THEN except
                           ELSE NodeResult(
                                    <<AIMessage(IF booking_result.verified
                                                THEN <<"[Din tid er booket]",
                                                       booking_data.selected_slot>>
                                                ELSE <<"[Booking fejlede]">>)>>,
                                    PyNone, current_step, booking_result.inserted, <<>>)
                  ELSE NodeResult(<<AIMessage(<<"[Ingen tid valgt]">>)>>, PyNone,
                                  current_step, <<>>, <<>>)
             ELSE NodeResult(<<AIMessage(<<"[Booking annulleret]">>)>>, PyNone,
                             current_step, <<>>, <<>>)
        ELSE NodeResult(<<AIMessage(<<"[Ukendt booking step]">>)>>, PyNone,
                        current_step, <<>>, <<>>)

\* what rag_workflow.run may do for the agent: raise, or return an answer
RagAnswers == {[err |-> TRUE, answer |-> <<>>], [err |-> FALSE, answer |-> <<"[svar]">>]}

\* the node returns no booking_data: the channel is not written
rag_search_node(st, rag) ==
    LET last_message == st.messages[Len(st.messages)]
        conversation_history ==
            IF Len(st.messages) > 1 THEN SubSeq(st.messages, 1, Len(st.messages) - 1)
            ELSE <<>>
    IN  IF last_message.role = "human"
        THEN [raised |-> FALSE,
              messages |-> IF rag.err THEN <<ErrorMessage>> ELSE <<AIMessage(rag.answer)>>,
              history |-> conversation_history]
        ELSE [raised |-> FALSE, messages |-> <<>>, history |-> <<>>]

\* CalendarTools.fetch_available_slots: a list of free slots (empty when the
\* calendar refuses the request), or an exception
AllSlots == <<"tue10", "tue11", "tue12", "wed10">>
SlotLists == {SubSeq(AllSlots, i, MaxSlots) : i \in 1..(MaxSlots + 1)}
FetchAnswers ==
    {[raised |-> TRUE, slots |-> <<>>]} \cup {[raised |-> FALSE, slots |-> s] : s \in SlotLists}


\* One run of the compiled graph on a thread: the input is added to the saved
\* state, route_query adds nothing, should_use_calendar picks the node, the
\* node's return is applied.  A node that raises ends the run with the state
\* saved before it.
InvokeGraph(saved, input_messages, llm, fetch, book, rag) ==
    LET entered == [saved EXCEPT !.messages = add(@, input_messages)]
        routed == [entered EXCEPT !.messages = add(@, <<>>)]
        route == should_use_calendar(routed, llm)
        cal == calendar_handler_node(routed, fetch, book)
        rag_out == rag_search_node(routed, rag)
    IN  IF route = "calendar"
        THEN [route |-> route, raised |-> cal.raised, step |-> cal.step,
              inserted |-> cal.inserted, offered |-> cal.offered, history |-> <<>>,
              returned |-> cal.messages,
              state |-> IF cal.raised THEN routed ELSE ApplyUpdate(routed, cal)]
        ELSE [route |-> route, raised |-> FALSE, step |-> "", inserted |-> <<>>,
              offered |-> <<>>, history |-> rag_out.history, returned |-> rag_out.messages,
              state |-> [routed EXCEPT !.messages = add(@, rag_out.messages)]]

\* the services a run consults, given what it finds on the thread
LlmFor(st) ==
    IF should_use_calendar(st, [err |-> TRUE, content |-> <<>>]) = "calendar"
    THEN {[err |-> TRUE, content |-> <<>>]}
    ELSE LlmAnswers
FetchFor(st, route) ==
    IF route = "calendar" /\ GetStep(GetBookingData(st, EmptyDict), "start") = "start"
    THEN FetchAnswers ELSE {[raised |-> TRUE, slots |-> <<>>]}
BookFor(st, route) ==
    IF route = "calendar" /\ GetStep(GetBookingData(st, EmptyDict), "start") = "confirm"
    THEN BookAnswers ELSE {"raises"}
RagFor(route) == IF route = "rag" THEN RagAnswers ELSE {[err |-> TRUE, answer |-> <<>>]}

----------------------------------------------------------------------------
(* Conversations and the two ways the server finds their thread            *)

Convs == {1, 2}

\* what a user may type: a booking request, a padded number, an affirmative
\* word in mixed case, a question
UserInputs ==
    {<<"b", "o", "o", "k">>, <<WS, "2">>, <<"J", "a", WS>>, <<"h", "v", "a", "d">>}

\* a client posts to /runs/stream on a thread id of its own, sending only
\* the new message or the whole conversation, or posts the whole conversation
\* to /chat; the clients of one deployment are of one kind, and the second
\* conversation may be absent ("off")
ClientKinds == {"thread_new", "thread_all", "chat"}

NoRequest ==
    [conv |-> 0, thread |-> 0, route |-> "", step |-> "", raised |-> FALSE,
     text |-> <<>>, before |-> FreshState, after |-> FreshState, conversation |-> <<>>,
     history |-> <<>>, inserted |-> <<>>, offered |-> <<>>, returned |-> <<>>,
     writers |-> {}]

AgentIdle ==
    /\ checkpoints = <<>>
    /\ session_threads = <<>>
    /\ clients = [c \in Convs |-> [kind |-> "chat", messages |-> <<>>]]
    /\ calendar_events = <<>>
    /\ last_request = NoRequest
    /\ requests = 0

----------------------------------------------------------------------------
(* The calendar workflow (workflows/calendar/workflow.py), called in step   *)
(* 'collect_details'.  The user's message is the text of a form: not JSON,  *)
(* a JSON value that is no object, or a JSON object with some of the six    *)
(* fields; the phone and notes values are texts of characters.              *)

RequiredFields == {"name", "phone", "substanceType", "kommune", "ageGroup"}
FormFields == RequiredFields \cup {"notes"}

\* phone.replace(' ', '').replace('-', '').replace('(', '').replace(')', '')
CleanPhone(phone) == SelectSeq(phone, LAMBDA ch : ch \notin {WS, "-", "(", ")"})

\* [2-9]\d{7}
LocalNumber(p) ==
    /\ Len(p) = 8
    /\ IndexOf(Digits, p[1]) >= 3
    /\ \A i \in 2..8 : IndexOf(Digits, p[i]) > 0

\* re.match(r'^(\+45)?[2-9]\d{7}$', phone)
MatchesDanishPhone(p) ==
    \/ LocalNumber(p)
    \/ /\ Len(p) > 3
       /\ SubSeq(p, 1, 3) = <<"+", "4", "5">>
       /\ LocalNumber(SubSeq(p, 4, Len(p)))

PhoneInputs ==
    {<<"2", "2", "3", "4", "5", "6", "7", "8">>,
     <<"+", "4", "5", WS, "2", "2", "-", "3", "4", "(", "5", "6", ")", "7", "8">>,
     <<"1", "2", "3", "4", "5", "6", "7", "8">>,
     <<"2", "2", "3", "4", "5", "6", "7">>}

NotesInputs == {<<"o", "k">>, <<"C", "a", "n", "c", "e", "l">>}

\* the forms a client may submit
Forms ==
    {[kind |-> k, fields |-> {}, phone |-> <<>>, notes |-> <<>>] : k \in {"not_json", "number"}}
    \cup
    {[kind |-> "object", fields |-> f,
      phone |-> IF "phone" \in f THEN ph ELSE <<>>,
      notes |-> IF "notes" \in f THEN nt ELSE <<>>] :
        f \in SUBSET FormFields, ph \in PhoneInputs, nt \in NotesInputs}

\* "annuller" in user_input.lower() or "cancel" in user_input.lower(): the
\* field names and the punctuation of the form hold neither word, so the
\* test is decided by the values
MentionsCancel(form) ==
    \E word \in {<<"a", "n", "n", "u", "l", "l", "e", "r">>, <<"c", "a", "n", "c", "e", "l">>} :
        \/ Contains(lower(form.phone), word)
        \/ Contains(lower(form.notes), word)

\* booking_context: None or a dict; booking_details is the parsed form
Context(step, selected_slot, details) ==
    [tag |-> "dict", step |-> step, selected_slot |-> selected_slot, booking_details |-> details]
NoDetails == [kind |-> "none", fields |-> {}, phone |-> <<>>, notes |-> <<>>]
NoContext == [Context("", "", NoDetails) EXCEPT !.tag = "None"]

CalendarReturn(text, active, context) ==
    [messages |-> <<AIMessage(<<text>>)>>, booking_active |-> active, booking_context |-> context]

\* _step3_collect_details: [raised, value]; raised is an exception that its
\* own except (json.JSONDecodeError, ValueError) does not catch
_step3_collect_details(form, booking_context) ==
    IF form.kind = "not_json"
    THEN [raised |-> FALSE,
          value |-> CalendarReturn("[Fejl ved behandling af formularen]", TRUE, booking_context)]
    ELSE IF form.kind = "number"
    THEN \* 'name' in 5: TypeError
         [raised |-> TRUE, value |-> CalendarReturn("", FALSE, NoContext)]
    ELSE IF ~(RequiredFields \subseteq form.fields)
    THEN [raised |-> FALSE,
          value |-> CalendarReturn("[Udfyld venligst alle felter]", TRUE, booking_context)]
    ELSE IF ~MatchesDanishPhone(CleanPhone(form.phone))
    THEN [raised |-> FALSE,
          value |-> CalendarReturn("[Ugyldigt telefonnummer]", TRUE, booking_context)]
    ELSE IF "notes" \notin form.fields
    THEN \* booking_details['notes']: KeyError
         [raised |-> TRUE, value |-> CalendarReturn("", FALSE, NoContext)]
    ELSE [raised |-> FALSE,
          value |-> CalendarReturn("[Gennemgaa og bekraeft din booking]", TRUE,
                                   Context("confirm_booking", booking_context.selected_slot,
                                           form))]

\* CalendarWorkflow.run on a state whose last message is the form
calendar_run(st) ==
    LET booking_context == st.booking_context
        current_step == booking_context.step
        out == _step3_collect_details(st.form, booking_context)
    IN  IF MentionsCancel(st.form)
        THEN CalendarReturn("[Booking annulleret]", FALSE, NoContext)
        ELSE IF current_step = "collect_details"
        THEN IF out.raised
             THEN CalendarReturn("[Beklager, der opstod en fejl]", FALSE, NoContext)
             ELSE out.value
        ELSE CalendarReturn("[Fejl i booking flow]", FALSE, NoContext)

NoCalendarState ==
    [form |-> NoDetails, booking_active |-> FALSE, booking_context |-> NoContext]

CalendarIdle ==
    /\ cw_pc = "off"
    /\ cw_state = NoCalendarState
    /\ cw_out = CalendarReturn("", FALSE, NoContext)

----------------------------------------------------------------------------
(* The older RAG workflow (workflows/rag_workflow.py).  Its tools answer    *)
(* nondeterministically: the reranked chunks, the verdict on each URL, the  *)
(* generation call, and whether a call inside run's try raised.             *)

\* what the tools may answer in one call of run
RagWorkflowAnswers ==
    [fault : BOOLEAN,
     reranked : SeqsUpTo([source_url : {"url1", "url2"}, score : {1, 2}], MaxChunks),
     relevant : [{"url1", "url2"} -> BOOLEAN],
     confidence : [{"url1", "url2"} -> {5, 7}],
     gen_err : BOOLEAN]

\* the URLs in order of first appearance, each with its best chunk score,
\* sorted by that score, best first and stable; the top three are kept
_group_by_url(results) ==
    LET first == SelectSeq([i \in 1..Len(results) |->
                               [source_url |-> results[i].source_url, at |-> i]],
                           LAMBDA e : \A j \in 1..(e.at - 1) :
                                         results[j].source_url # e.source_url)
        best(u) == CHOOSE m \in {1, 2} :
                       /\ \E i \in 1..Len(results) :
                              results[i].source_url = u /\ results[i].score = m
                       /\ \A i \in 1..Len(results) :
                              results[i].source_url = u => results[i].score <= m
    IN  Take(sorted_by_score_desc([i \in 1..Len(first) |->
                 [source_url |-> first[i].source_url, score |-> best(first[i].source_url)]]),
             3)

\* the first URL judged relevant with confidence >= 7.0, or None
_validate_urls(grouped_urls, ext) ==
    LET accepted == SelectSeq(grouped_urls,
                              LAMBDA g : ext.relevant[g.source_url] /\
                                         ext.confidence[g.source_url] >= 7)
    IN  IF accepted = <<>> THEN None ELSE <<accepted[1].source_url>>

\* RAGWorkflow.run
rag_workflow_run(ext) ==
    LET validated_url == _validate_urls(_group_by_url(ext.reranked), ext)
    IN  IF ext.fault
        THEN [answer |-> RunApologyText, source_url |-> None]
        ELSE IF validated_url # None
        THEN [answer |-> IF ext.gen_err THEN GenApologyText ELSE <<"[svar]">>,
              source_url |-> validated_url,
              page_title |-> <<"[page title]">>,
              description |-> <<"Information om ", "[page title]">>]
        ELSE [answer |-> <<"[Ingen relevant information fundet]">>, source_url |-> None,
              page_title |-> None, description |-> None]

RagWorkflowIdle ==
    /\ rw_pc = "off"
    /\ rw_ext = [fault |-> FALSE, reranked |-> <<>>,
                 relevant |-> [u \in {"url1", "url2"} |-> FALSE],
                 confidence |-> [u \in {"url1", "url2"} |-> 5], gen_err |-> FALSE]
    /\ rw_out = NoResult

AppIdle == AgentIdle /\ CalendarIdle /\ RagWorkflowIdle

Init == PipeIdle /\ HsIdle /\ IndexIdle /\ RerankIdle /\ Bm25Idle /\ AppIdle

\* raw hits the engines returned so far in this request
RECURSIVE HitsIn(_)
HitsIn(calls) ==
    IF calls = <<>> THEN 0
    ELSE Len(Head(calls).vec) + Len(Head(calls).bm) + HitsIn(Tail(calls))

RawHits == HitsIn(raw_calls)

\* an exception left graph.invoke: run's except branch answers
Except ==
    /\ pc' = "done"
    /\ result' = run_except.value
    /\ raised' = run_except.raised
    /\ caught' = TRUE

Run ==
    /\ pc = "idle"
    /\ \E q \in Queries, h \in Histories :
          /\ state' = initial_state(q, h)
          /\ query_in' = q
          /\ history_in' = h
    /\ pc' = "step1"
    /\ UNCHANGED <<result, raised, caught, all_results, loop_i, rewrite_calls,
                   rewrite_failed, raw_calls, rerank_calls, rerank_query,
                   rerank_candidates, gen_calls, rerank_fallback, gen_failed,
                   other_vars>>

Step1 ==
    /\ pc = "step1"
    /\ \E ext \in RewriteAnswers(state.query) :
          LET out == step1_rewrite_query(state, ext)
          IN IF out.raised
             THEN /\ Except
                  /\ rewrite_calls' = rewrite_calls + out.calls
                  /\ rewrite_failed' = out.failed
                  /\ UNCHANGED <<state, all_results, loop_i>>
             ELSE /\ state' = NodeReturn(state, out.value)
                  /\ rewrite_calls' = rewrite_calls + out.calls
                  /\ rewrite_failed' = out.failed
                  /\ all_results' = <<>>
                  /\ loop_i' = 1
                  /\ pc' = "step2"
                  /\ UNCHANGED <<result, raised, caught>>
    /\ UNCHANGED <<query_in, history_in, raw_calls, rerank_calls, rerank_query,
                   rerank_candidates, gen_calls, rerank_fallback, gen_failed,
                   other_vars>>

\* one pass of step 2's loop: hybrid_search for the next variant
Step2Search ==
    /\ pc = "step2"
    /\ loop_i <= Len(state.rewritten_queries)
    /\ \E vec \in VecAnswers({0}, MaxRaw - RawHits) :
       \E bm \in BmAnswers({2}, MaxRaw - RawHits - VecHits(vec)) :
          LET query == state.rewritten_queries[loop_i]
              results == hybrid_search(query, SearchLimit, vec, bm)
              returned == [vec |-> vector_search(query, SearchLimit, vec).value,
                           bm |-> bm25_search(query, SearchLimit, bm).value]
          IN IF results.raised
             THEN /\ Except
                  /\ UNCHANGED <<all_results, loop_i, raw_calls>>
             ELSE /\ all_results' = all_results \o results.value
                  /\ loop_i' = loop_i + 1
                  /\ raw_calls' = Append(raw_calls, returned)
                  /\ UNCHANGED <<pc, result, raised, caught>>
    /\ UNCHANGED <<state, query_in, history_in, rewrite_calls, rewrite_failed,
                   rerank_calls, rerank_query, rerank_candidates, gen_calls,
                   rerank_fallback, gen_failed, other_vars>>

\* the rest of step 2, after the loop
Step2Rerank ==
    /\ pc = "step2"
    /\ loop_i > Len(state.rewritten_queries)
    /\ \E ext \in RerankAnswers(Len(deduplicate_results(all_results)), {3}) :
          LET out == step2_rerank(state, all_results, ext)
          IN IF out.raised
             THEN /\ Except
                  /\ UNCHANGED <<state, all_results, rerank_calls, rerank_query,
                                 rerank_candidates, rerank_fallback>>
             ELSE /\ state' = NodeReturn(state, out.value)
                  /\ rerank_calls' = rerank_calls + out.calls
                  /\ rerank_query' = out.query
                  /\ rerank_candidates' = out.candidates
                  /\ rerank_fallback' = out.fallback
                  /\ all_results' = <<>>
                  /\ pc' = "step3"
                  /\ UNCHANGED <<result, raised, caught>>
    /\ UNCHANGED <<loop_i, query_in, history_in, rewrite_calls, rewrite_failed,
                   raw_calls, gen_calls, gen_failed, other_vars>>

\* step 3, the end of the graph, and run's return
Step3 ==
    /\ pc = "step3"
    /\ \E ext \in GenAnswers :
          LET out == step3_validate_and_generate(state, ext)
          IN IF out.raised
             THEN /\ Except
                  /\ gen_calls' = gen_calls + out.calls
                  /\ gen_failed' = out.failed
                  /\ UNCHANGED state
             ELSE /\ state' = NodeReturn(state, out.value)
                  /\ gen_calls' = gen_calls + out.calls
                  /\ gen_failed' = out.failed
                  /\ result' = run_result(state')
                  /\ pc' = "done"
                  /\ UNCHANGED <<raised, caught>>
    /\ UNCHANGED <<all_results, loop_i, query_in, history_in, rewrite_calls, rewrite_failed,
                   raw_calls, rerank_calls, rerank_query, rerank_candidates,
                   rerank_fallback, other_vars>>

\* the graph runtime itself raises inside graph.invoke
InvokeRaises ==
    /\ pc \in {"step1", "step2", "step3"}
    /\ Except
    /\ UNCHANGED <<state, all_results, loop_i, query_in, history_in, rewrite_calls,
                   rewrite_failed, raw_calls, rerank_calls, rerank_query,
                   rerank_candidates, gen_calls, rerank_fallback, gen_failed,
                   other_vars>>

Next == Run \/ Step1 \/ Step2Search \/ Step2Rerank \/ Step3

Spec == Init /\ [][Next]_vars

NextFault == Next \/ InvokeRaises

SpecFault == Init /\ [][NextFault]_vars

----------------------------------------------------------------------------
(* hybrid_search called on its own, on any answers of the two engines *)

InitHybrid ==
    /\ PipeIdle
    /\ AppIdle
    /\ IndexIdle
    /\ RerankIdle
    /\ Bm25Idle
    /\ hs_pc = "call"
    /\ hs_vec \in VecAnswers({0, 1}, MaxHits)
    /\ hs_bm \in BmAnswers({1, 2}, MaxHits)
    /\ hs_out = [raised |-> FALSE, value |-> <<>>]

HybridSearchCall ==
    /\ hs_pc = "call"
    /\ hs_out' = hybrid_search(<<"q">>, SearchLimit, hs_vec, hs_bm)
    /\ hs_pc' = "returned"
    /\ UNCHANGED <<hs_vec, hs_bm, pipe_vars, idx_vars, rr_vars, bm_vars, app_vars>>

NextHybrid == HybridSearchCall

SpecHybrid == InitHybrid /\ [][NextHybrid]_vars

----------------------------------------------------------------------------
(* rerank_results called on its own, on any candidates and any answer of    *)
(* the rerank service                                                       *)

InitRerank ==
    /\ PipeIdle
    /\ AppIdle
    /\ HsIdle
    /\ IndexIdle
    /\ Bm25Idle
    /\ rr_pc = "call"
    /\ rr_results \in CandidateLists(MaxCands)
    /\ rr_top_k \in {1, MaxCands}
    /\ rr_ext \in RerankResponses(Len(rr_results), rr_top_k, {1, 3}, MaxResp)
    /\ rr_out = [raised |-> FALSE, value |-> <<>>, called |-> FALSE, fallback |-> FALSE]

RerankCall ==
    /\ rr_pc = "call"
    /\ rr_out' = rerank_results(<<"q">>, rr_results, rr_top_k, rr_ext)
    /\ rr_pc' = "returned"
    /\ UNCHANGED <<rr_results, rr_top_k, rr_ext, pipe_vars, hs_vars, idx_vars, bm_vars,
                   app_vars>>

NextRerank == RerankCall

SpecRerank == InitRerank /\ [][NextRerank]_vars

----------------------------------------------------------------------------
(* bm25_search called on its own, on any scores of the lexical index        *)

\* get_scores: any score per document of the index, negative ones included
Bm25Scores == [1..Len(Corpus) -> {-1, 0, 1, 2}]

InitBm25 ==
    /\ PipeIdle
    /\ AppIdle
    /\ HsIdle
    /\ IndexIdle
    /\ RerankIdle
    /\ bm25_pc = "call"
    /\ bm25_ext \in {[err |-> TRUE, scores |-> <<>>]} \cup
                     {[err |-> FALSE, scores |-> sc] : sc \in Bm25Scores}
    /\ bm25_limit \in 1..MaxLimit
    /\ bm25_out = [raised |-> FALSE, value |-> <<>>]

Bm25SearchCall ==
    /\ bm25_pc = "call"
    /\ bm25_out' = bm25_search(<<"q">>, bm25_limit, bm25_ext)
    /\ bm25_pc' = "returned"
    /\ UNCHANGED <<bm25_ext, bm25_limit, pipe_vars, hs_vars, idx_vars, rr_vars, app_vars>>

NextBm25 == Bm25SearchCall

SpecBm25 == InitBm25 /\ [][NextBm25]_vars

----------------------------------------------------------------------------
(* _get_bm25_index, called by the worker threads that serve concurrent       *)
(* requests on the one SearchTools object of the process.  A step is what a  *)
(* thread does between two points where another thread can run.             *)

\* bm25_search calls _get_bm25_index
GetIndexEnter(t) ==
    /\ th_pc[t] = "idle"
    /\ th_pc' = [th_pc EXCEPT ![t] = "check"]
    /\ UNCHANGED <<th_resp, th_texts, th_ret, th_used, bm25_index, bm25_documents,
                   doc_lists, index_builds, corpus_fetches>>

\* if self._bm25_index is None
GetIndexCheck(t) ==
    /\ th_pc[t] = "check"
    /\ th_pc' = [th_pc EXCEPT ![t] = IF bm25_index = None THEN "fetch" ELSE "return"]
    /\ UNCHANGED <<th_resp, th_texts, th_ret, th_used, bm25_index, bm25_documents,
                   doc_lists, index_builds, corpus_fetches>>

\* collection.query.fetch_objects(limit=1000): the store answers with the
\* corpus or raises; the exception ends bm25_search in its except branch
GetIndexFetch(t) ==
    /\ th_pc[t] = "fetch"
    /\ \E err \in BOOLEAN :
          IF err
          THEN /\ th_pc' = [th_pc EXCEPT ![t] = "done"]
               /\ th_ret' = [th_ret EXCEPT ![t] = [NoReturn EXCEPT !.raised = TRUE]]
               /\ UNCHANGED <<th_resp, corpus_fetches>>
          ELSE /\ th_pc' = [th_pc EXCEPT ![t] = "reset"]
               /\ th_resp' = [th_resp EXCEPT ![t] = Corpus]
               /\ corpus_fetches' = corpus_fetches + 1
               /\ UNCHANGED th_ret
    /\ UNCHANGED <<th_texts, th_used, bm25_index, bm25_documents, doc_lists, index_builds>>

\* self._bm25_documents = []; texts = []
GetIndexReset(t) ==
    /\ th_pc[t] = "reset"
    /\ doc_lists' = Append(doc_lists, <<>>)
    /\ bm25_documents' = Len(doc_lists) + 1
    /\ th_texts' = [th_texts EXCEPT ![t] = <<>>]
    /\ th_pc' = [th_pc EXCEPT ![t] = "loop"]
    /\ UNCHANGED <<th_resp, th_ret, th_used, bm25_index, index_builds, corpus_fetches>>

\* one pass of the loop over response.objects: the passage is appended to
\* the list self._bm25_documents refers to now, its content to texts
GetIndexAppend(t) ==
    /\ th_pc[t] = "loop"
    /\ Len(th_texts[t]) < Len(th_resp[t])
    /\ LET doc == th_resp[t][Len(th_texts[t]) + 1]
       IN /\ doc_lists' = [doc_lists EXCEPT ![bm25_documents] = Append(@, doc)]
          /\ th_texts' = [th_texts EXCEPT ![t] = Append(@, doc)]
    /\ UNCHANGED <<th_pc, th_resp, th_ret, th_used, bm25_index, bm25_documents,
                   index_builds, corpus_fetches>>

\* self._bm25_index = BM25Okapi(tokenized_corpus)
GetIndexBuild(t) ==
    /\ th_pc[t] = "loop"
    /\ Len(th_texts[t]) = Len(th_resp[t])
    /\ bm25_index' = <<"BM25Okapi", th_texts[t]>>
    /\ index_builds' = index_builds + 1
    /\ th_pc' = [th_pc EXCEPT ![t] = "return"]
    /\ UNCHANGED <<th_resp, th_texts, th_ret, th_used, bm25_documents, doc_lists,
                   corpus_fetches>>

\* return self._bm25_index, self._bm25_documents
GetIndexReturn(t) ==
    /\ th_pc[t] = "return"
    /\ th_ret' = [th_ret EXCEPT ![t] = [raised |-> FALSE, index |-> bm25_index,
                                        documents |-> bm25_documents]]
    /\ th_pc' = [th_pc EXCEPT ![t] = "use"]
    /\ UNCHANGED <<th_resp, th_texts, th_used, bm25_index, bm25_documents, doc_lists,
                   index_builds, corpus_fetches>>

\* bm25_search, after _get_bm25_index returned: get_scores on the index and
\* documents[idx] on the list the returned reference names at that moment
Bm25UseIndex(t) ==
    /\ th_pc[t] = "use"
    /\ th_used' = [th_used EXCEPT ![t] = doc_lists[th_ret[t].documents]]
    /\ th_pc' = [th_pc EXCEPT ![t] = "done"]
    /\ UNCHANGED <<th_resp, th_texts, th_ret, bm25_index, bm25_documents, doc_lists,
                   index_builds, corpus_fetches>>

NextIndex ==
    /\ \E t \in Threads :
          \/ GetIndexEnter(t)
          \/ GetIndexCheck(t)
          \/ GetIndexFetch(t)
          \/ GetIndexReset(t)
          \/ GetIndexAppend(t)
          \/ GetIndexBuild(t)
          \/ GetIndexReturn(t)
          \/ Bm25UseIndex(t)
    /\ UNCHANGED <<pipe_vars, hs_vars, rr_vars, bm_vars, app_vars>>

SpecIndex == Init /\ [][NextIndex]_vars

----------------------------------------------------------------------------
(* Requests to the agent *)

\* what the server streams back: the node's message, or the text of the
\* exception that ended the run
Reply(run) ==
    IF run.raised THEN <<"[Error]">>
    ELSE IF run.returned = <<>> THEN <<>>
    ELSE run.returned[Len(run.returned)].content

\* requests served in one behaviour: MaxRequests for a conversation on its
\* own, MaxSideBySide when two conversations run side by side
Budget == IF clients[2].kind = "off" THEN MaxRequests ELSE MaxSideBySide

\* A request of conversation c runs the graph on thread thread_id with
\* input_messages; conversation is the client's message list with the new
\* user message.  The client appends the reply it is sent to its list.
Serve(c, thread_id, input_messages, conversation, text) ==
    LET known == thread_id \in DOMAIN checkpoints
        saved == IF known THEN checkpoints[thread_id].values ELSE FreshState
        writers == IF known THEN checkpoints[thread_id].writers ELSE {}
        entered == [saved EXCEPT !.messages = add(@, input_messages)]
    IN  \E llm \in LlmFor(entered) :
          LET route == should_use_calendar(entered, llm) IN
          \E fetch \in FetchFor(entered, route), book \in BookFor(entered, route),
             rag \in RagFor(route) :
            \E run \in {InvokeGraph(saved, input_messages, llm, fetch, book, rag)} :
              /\ checkpoints' =
                     [t \in DOMAIN checkpoints \cup {thread_id} |->
                         IF t = thread_id
                         THEN [values |-> run.state, writers |-> writers \cup {c}]
                         ELSE checkpoints[t]]
              /\ clients' = [clients EXCEPT ![c].messages =
                                 Append(conversation, AIMessage(Reply(run)))]
              /\ calendar_events' = calendar_events \o run.inserted
              /\ last_request' =
                     [conv |-> c, thread |-> thread_id, route |-> run.route,
                      step |-> run.step, raised |-> run.raised, text |-> text,
                      before |-> saved, after |-> run.state,
                      conversation |-> conversation, history |-> run.history,
                      inserted |-> run.inserted, offered |-> run.offered,
                      returned |-> run.returned, writers |-> writers]
              /\ requests' = requests + 1

\* POST /runs/stream (and resume_run) with the thread id in the request
StreamRun(c) ==
    /\ requests < Budget
    /\ clients[c].kind \in {"thread_new", "thread_all"}
    /\ \E text \in UserInputs :
          LET conversation == Append(clients[c].messages, HumanMessage(text)) IN
          Serve(c, c,
                IF clients[c].kind = "thread_new" THEN <<HumanMessage(text)>>
                ELSE conversation,
                conversation, text)
    /\ UNCHANGED <<session_threads, pipe_vars, hs_vars, idx_vars, rr_vars, bm_vars,
                   cw_vars, rw_vars>>

\* the contents of messages[:2]; equal lists give equal session keys
SessionKey(messages) == [i \in 1..Min(Len(messages), 2) |-> messages[i].content]

\* POST /chat: the thread is looked up, or created, under the session key
ChatEndpoint(c) ==
    /\ requests < Budget
    /\ clients[c].kind = "chat"
    /\ \E text \in UserInputs :
          LET messages == Append(clients[c].messages, HumanMessage(text))
              session_key == SessionKey(messages)
              known == IndexOf(session_threads, session_key)
              \* uuid4: an id no client and no earlier session has
              thread_id == Cardinality(Convs) +
                               (IF known > 0 THEN known ELSE Len(session_threads) + 1)
          IN  /\ session_threads' = IF known > 0 THEN session_threads
                                    ELSE Append(session_threads, session_key)
              /\ Serve(c, thread_id, messages, messages, text)
    /\ UNCHANGED <<pipe_vars, hs_vars, idx_vars, rr_vars, bm_vars, cw_vars, rw_vars>>

InitAgent ==
    /\ PipeIdle
    /\ HsIdle
    /\ IndexIdle
    /\ RerankIdle
    /\ Bm25Idle
    /\ CalendarIdle
    /\ RagWorkflowIdle
    /\ checkpoints = <<>>
    /\ session_threads = <<>>
    /\ \E k \in ClientKinds : \E other \in {k, "off"} :
          clients = [c \in Convs |-> [kind |-> IF c = 1 THEN k ELSE other,
                                      messages |-> <<>>]]
    /\ calendar_events = <<>>
    /\ last_request = NoRequest
    /\ requests = 0

NextAgent == \E c \in Convs : StreamRun(c) \/ ChatEndpoint(c)

SpecAgent == InitAgent /\ [][NextAgent]_vars

----------------------------------------------------------------------------
(* CalendarWorkflow.run called on its own, in step 'collect_details' or in  *)
(* a step it does not know, on any form                                     *)

InitCalendar ==
    /\ PipeIdle
    /\ HsIdle
    /\ IndexIdle
    /\ RerankIdle
    /\ Bm25Idle
    /\ AgentIdle
    /\ RagWorkflowIdle
    /\ cw_pc = "call"
    /\ cw_state \in {[form |-> f, booking_active |-> TRUE,
                      booking_context |-> Context(step, slot, NoDetails)] :
                         f \in Forms, step \in {"collect_details", "review"},
                         slot \in {"tue10", "tue11"}}
    /\ cw_out = CalendarReturn("", FALSE, NoContext)

CalendarRunCall ==
    /\ cw_pc = "call"
    /\ cw_out' = calendar_run(cw_state)
    /\ cw_pc' = "returned"
    /\ UNCHANGED <<cw_state, pipe_vars, hs_vars, idx_vars, rr_vars, bm_vars, ag_vars, rw_vars>>

NextCalendar == CalendarRunCall

SpecCalendar == InitCalendar /\ [][NextCalendar]_vars

----------------------------------------------------------------------------
(* RAGWorkflow.run called on its own, on any answers of its tools *)

InitRagWorkflow ==
    /\ PipeIdle
    /\ HsIdle
    /\ IndexIdle
    /\ RerankIdle
    /\ Bm25Idle
    /\ AgentIdle
    /\ CalendarIdle
    /\ rw_pc = "call"
    /\ rw_ext \in RagWorkflowAnswers
    /\ rw_out = NoResult

RagWorkflowRunCall ==
    /\ rw_pc = "call"
    /\ rw_out' = rag_workflow_run(rw_ext)
    /\ rw_pc' = "returned"
    /\ UNCHANGED <<rw_ext, pipe_vars, hs_vars, idx_vars, rr_vars, bm_vars, ag_vars, cw_vars>>

NextRagWorkflow == RagWorkflowRunCall

SpecRagWorkflow == InitRagWorkflow /\ [][NextRagWorkflow]_vars

----------------------------------------------------------------------------
(* Properties *)

Returned == pc = "done"

AfterStep1 == pc \in {"step2", "step3", "done"}

WellFormed(r) == DOMAIN r = {"answer", "source_url", "page_title", "description"}

KeysOf(s) == {Key(s[i]) : i \in 1..Len(s)}

WithKey(s, k) == {s[i] : i \in {j \in 1..Len(s) : Key(s[j]) = k}}

FirstWithKey(s, k) ==
    s[CHOOSE i \in 1..Len(s) : Key(s[i]) = k /\ \A j \in 1..(i - 1) : Key(s[j]) # k]

NoDuplicateKeys(s) == \A i, j \in 1..Len(s) : i # j => Key(s[i]) # Key(s[j])

\* the raw results of a request in visiting order: semantic before lexical
\* within a variant, variants in the order given
RECURSIVE SemanticFirst(_)
SemanticFirst(calls) ==
    IF calls = <<>> THEN <<>>
    ELSE Head(calls).vec \o Head(calls).bm \o SemanticFirst(Tail(calls))

\* the same with lexical before semantic within a variant
RECURSIVE LexicalFirst(_)
LexicalFirst(calls) ==
    IF calls = <<>> THEN <<>>
    ELSE Head(calls).bm \o Head(calls).vec \o LexicalFirst(Tail(calls))

AllSearchesEmpty ==
    /\ Len(raw_calls) = Len(state.rewritten_queries)
    /\ \A i \in 1..Len(raw_calls) : raw_calls[i].vec = <<>> /\ raw_calls[i].bm = <<>>

\* C1: run never raises and always returns a well-formed record whose answer
\* text is not empty, whatever the external calls do.
C1_RunAlwaysAnswers ==
    Returned => /\ ~raised
                /\ WellFormed(result)
                /\ result.answer # EmptyText

C3_EmptyResultsFallback ==
    (Returned /\ ~caught /\ state.search_results = <<>>) =>
        /\ state.answer = NoInfoText
        /\ state.source_url = None
        /\ gen_calls = 0

C3_Witness ==
    /\ Returned
    /\ state.search_results = <<>>
    /\ history_in # <<>>
    /\ state.answer = NoInfoText

\* C4: when every lexical and every semantic search of the request returned
\* an empty list, run returns the fixed "no information" text, uncited.
C4_EmptyKnowledgeBase ==
    (Returned /\ AllSearchesEmpty) =>
        /\ result.answer = NoInfoText
        /\ result.source_url = None

C4_Witness ==
    /\ Returned
    /\ AllSearchesEmpty
    /\ rewrite_failed
    /\ history_in # <<>>
    /\ result.answer = NoInfoText

C6_FailureGivesSingleQuery ==
    rewrite_failed => (~raised /\ state.rewritten_queries = <<query_in>>)

\* C6, amended: when the reformulation call fails step 1 does not raise and
\* the variant list is [query, query].
C6_FailureGivesQueryTwice ==
    rewrite_failed => (~raised /\ state.rewritten_queries = <<query_in, query_in>>)

C6_Witness == pc = "step2" /\ rewrite_failed /\ loop_i = 1

\* C7: the variant list handed to retrieval has the original query at
\* position 0 and at most two entries.
C7_OriginalQueryFirst ==
    AfterStep1 =>
        /\ Len(state.rewritten_queries) \in 1..2
        /\ state.rewritten_queries[1] = query_in

C7_Witness ==
    /\ pc = "step2"
    /\ loop_i = 2
    /\ Len(state.rewritten_queries) = 2
    /\ state.rewritten_queries[2] # query_in

\* C8, as claimed: when step 2 has searched and deduplicated, per key the
\* retained candidate is the first one seen when lexical results are visited
\* before semantic results.
C8_LexicalWins ==
    pc = "step3" =>
        \A k \in KeysOf(LexicalFirst(raw_calls)) :
            WithKey(rerank_candidates, k) = {FirstWithKey(LexicalFirst(raw_calls), k)}

\* C8, amended: when step 2 has searched and deduplicated, per key the
\* retained candidate is the first one seen when semantic results are visited
\* before lexical results within a variant and variants in the order given.
C8_SemanticWins ==
    pc = "step3" =>
        \A k \in KeysOf(SemanticFirst(raw_calls)) :
            WithKey(rerank_candidates, k) = {FirstWithKey(SemanticFirst(raw_calls), k)}

\* both engines return the same key for one variant
C8_Witness ==
    /\ pc = "step3"
    /\ \E i \in 1..Len(raw_calls) :
          KeysOf(raw_calls[i].vec) \cap KeysOf(raw_calls[i].bm) # {}

\* C9: no two candidates passed to the reranker share a key.
C9_CandidatesHaveDistinctKeys == NoDuplicateKeys(rerank_candidates)

\* A1 and A2 (same URL, same first 100 characters, different suffix) were both
\* returned and one candidate carries their key
C9_Witness ==
    /\ pc = "step3"
    /\ {"A1", "A2"} \subseteq {SemanticFirst(raw_calls)[i].doc : i \in 1..Len(SemanticFirst(raw_calls))}
    /\ Cardinality({i \in 1..Len(rerank_candidates) :
                       rerank_candidates[i].doc \in {"A1", "A2"}}) = 1

\* what hybrid_search returns when the named engine's answer is replaced by
\* an empty list
WithEmptyVector == hybrid_search(<<"q">>, SearchLimit, [err |-> FALSE, objs |-> <<>>], hs_bm)

WithEmptyLexical ==
    hybrid_search(<<"q">>, SearchLimit, hs_vec,
                  [err |-> FALSE, scores |-> [i \in 1..Len(Corpus) |-> 0]])

\* C10: if exactly one engine raises, hybrid_search does not raise and
\* returns the other engine's results deduplicated, as if the failing engine
\* had returned an empty list.
C10_OneEngineFails ==
    /\ (hs_pc = "returned" /\ hs_vec.err /\ ~hs_bm.err) =>
          /\ ~hs_out.raised
          /\ hs_out = WithEmptyVector
          /\ hs_out.value = DedupFrom(bm25_search(<<"q">>, SearchLimit, hs_bm).value, {}, <<>>)
    /\ (hs_pc = "returned" /\ hs_bm.err /\ ~hs_vec.err) =>
          /\ ~hs_out.raised
          /\ hs_out = WithEmptyLexical
          /\ hs_out.value = DedupFrom(vector_search(<<"q">>, SearchLimit, hs_vec).value, {}, <<>>)

\* the semantic engine raised and the lexical engine returned two passages of
\* one key
C10_Witness ==
    /\ hs_pc = "returned"
    /\ hs_vec.err
    /\ ~hs_bm.err
    /\ Len(hs_out.value) = 1
    /\ Len(bm25_search(<<"q">>, SearchLimit, hs_bm).value) = 2

\* C11: when several requests call the lexical search concurrently before
\* the index exists, the corpus is fetched and the index constructed at most
\* once for the process.
C11_IndexBuiltAtMostOnce == index_builds <= 1 /\ corpus_fetches <= 1

NonIncreasing(s) == \A i \in 1..Len(s) - 1 : s[i].score >= s[i + 1].score

ElementsOf(s) == {s[i] : i \in 1..Len(s)}

\* the rerank service failed, or named a document that was not sent
RerankServiceFailed ==
    rr_ext.err \/ \E i \in 1..Len(rr_ext.results) : rr_ext.results[i].index >= Len(rr_results)

\* C12: the list rerank_results returns is non-increasing in score, on the
\* success path for any response of the rerank service and on the fallback
\* path.
C12_RerankOutputNonIncreasing ==
    rr_pc = "returned" => NonIncreasing(rr_out.value)

\* C13: when the rerank service fails or its response cannot be mapped back,
\* rerank_results does not raise and returns the top_k candidates of highest
\* own score, in descending order of that score, equal scores in their given
\* order, each entry one of the candidates unchanged.
C13_FallbackSortsCandidates ==
    (rr_pc = "returned" /\ rr_results # <<>> /\ RerankServiceFailed) =>
        LET out == rr_out.value
        IN /\ ~rr_out.raised
           /\ Len(out) = Min(Len(rr_results), rr_top_k)
           /\ NonIncreasing(out)
           /\ ElementsOf(out) \subseteq ElementsOf(rr_results)
           /\ Cardinality(ElementsOf(out)) = Len(out)
           /\ \A x \in ElementsOf(rr_results) \ ElementsOf(out) :
                 \A y \in ElementsOf(out) : x.score <= y.score
           /\ \A i, j \in 1..Len(rr_results) :
                 (i < j /\ rr_results[i].score = rr_results[j].score
                        /\ rr_results[j] \in ElementsOf(out)) =>
                    \E a, b \in 1..Len(out) :
                       a < b /\ out[a] = rr_results[i] /\ out[b] = rr_results[j]

\* the service failed on two candidates given in ascending order of score
C13_Witness ==
    /\ rr_pc = "returned"
    /\ RerankServiceFailed
    /\ Len(rr_results) = 2
    /\ rr_results[1].score < rr_results[2].score
    /\ rr_out.value = <<rr_results[2], rr_results[1]>>

\* C14: called with an empty candidate list rerank_results returns an empty
\* list and does not call the rerank service.
C14_EmptyCandidatesNoCall ==
    (rr_pc = "returned" /\ rr_results = <<>>) =>
        /\ ~rr_out.raised
        /\ rr_out.value = <<>>
        /\ ~rr_out.called

C14_Witness ==
    /\ rr_pc = "returned"
    /\ rr_results = <<>>
    /\ ~rr_ext.err
    /\ rr_out.value = <<>>

\* the answer starts with a link
HasCitation(answer) == Len(answer) >= 2 /\ answer[1] = "LINK"

CitedUrl(answer) == answer[2]

\* C15: whenever the answer returned for a request carries a citation, the
\* cited URL is the source_url of one of the ranked results that were handed
\* to the synthesizer.
C15_CitedUrlWasSupplied ==
    (Returned /\ ~caught /\ HasCitation(result.answer)) =>
        CitedUrl(result.answer) \in
            {Url(state.validated_chunks[i].doc) : i \in 1..Len(state.validated_chunks)}

\* C16: when the generation model call fails while candidates are present,
\* the synthesizer does not raise and the request's answer is the
\* synthesizer's fixed apology text, with no citation.
C16_GenerationFailureApologises ==
    (Returned /\ gen_failed) =>
        /\ ~raised
        /\ ~caught
        /\ result.answer = GenApologyText
        /\ ~HasCitation(result.answer)
        /\ result.source_url = None

C16_Witness ==
    /\ Returned
    /\ gen_failed
    /\ gen_calls = 1
    /\ state.search_results # <<>>
    /\ state.answer = GenApologyText

StagesOf(s) == {s[i].stage : i \in 1..Len(s)}

\* C17: whenever the pipeline sorts by score, the scores it compares were
\* produced by one stage: the candidates the rerank fallback sorts are all
\* lexical or all semantic.
C17_SortsWithinOneStage ==
    rerank_fallback => Cardinality(StagesOf(rerank_candidates)) <= 1

\* the positions a request can move between: forward, one stage at a time
\* (step 2 repeats its search once per variant), or out through run's except
StageOrder ==
    {<<"idle", "step1">>, <<"step1", "step2">>, <<"step2", "step2">>,
     <<"step2", "step3">>, <<"step3", "done">>, <<"step1", "done">>, <<"step2", "done">>}

\* C18: the stages run in the order reformulation, retrieval, rerank,
\* synthesis, each external stage call at most once (one retrieval per
\* variant), and no stage changes the output of an earlier one: the variant
\* list is unchanged after step 1, the ranked results after step 2.
C18_StagesRunForward ==
    [][/\ <<pc, pc'>> \in StageOrder
       /\ pc \in {"step2", "step3"} => state'.rewritten_queries = state.rewritten_queries
       /\ pc = "step3" => state'.search_results = state.search_results
       /\ rewrite_calls' <= 1
       /\ rerank_calls' <= 1
       /\ gen_calls' <= 1
       /\ Len(raw_calls') <= Len(state'.rewritten_queries)]_pipe_vars

C18_Witness ==
    /\ Returned
    /\ ~caught
    /\ rewrite_calls = 1
    /\ Len(raw_calls) = 2
    /\ rerank_calls = 1
    /\ gen_calls = 1
    /\ state.rewritten_queries[2] # query_in
    /\ state.search_results # <<>>

\* C19: during the three steps and at the end of a request the history in
\* the workflow state equals the history the caller gave to run.
C19_HistoryUnchanged ==
    (pc \in {"step1", "step2", "step3", "done"} /\ ~caught) => state.messages = history_in

\* positions of the index whose score is among the limit highest, equal
\* scores counted in index order
TopPositions(scores, limit) ==
    {i \in 1..Len(scores) :
        Cardinality({j \in 1..Len(scores) :
                        scores[j] > scores[i] \/ (scores[j] = scores[i] /\ j < i)}) < limit}

\* C20: bm25_search returns exactly the passages of strictly positive score
\* among the limit highest-scoring passages: at most limit results, every
\* score greater than 0, in non-increasing order of score.
C20_Bm25PositiveTopLimit ==
    (bm25_pc = "returned" /\ ~bm25_ext.err) =>
        LET out == bm25_out.value
            scores == bm25_ext.scores
            expected == {i \in TopPositions(scores, bm25_limit) : scores[i] > 0}
        IN /\ ~bm25_out.raised
           /\ Len(out) <= bm25_limit
           /\ Len(out) = Cardinality(expected)
           /\ ElementsOf(out) = {SearchResult(Corpus[i], scores[i], "bm25") : i \in expected}
           /\ \A k \in 1..Len(out) : out[k].score > 0
           /\ NonIncreasing(out)

\* more passages score positively than the limit allows, and the list is
\* cut at the limit
C20_Witness ==
    /\ bm25_pc = "returned"
    /\ ~bm25_ext.err
    /\ bm25_limit = 2
    /\ Cardinality({i \in 1..Len(bm25_ext.scores) : bm25_ext.scores[i] > 0}) = 3
    /\ \E i \in 1..Len(bm25_ext.scores) : bm25_ext.scores[i] < 0
    /\ Len(bm25_out.value) = 2

\* C23: the query sent to the rerank service is the original user query of
\* the request, the variant at position 0, whatever step 1 produced.
C23_RerankUsesOriginalQuery ==
    (pc \in {"step3", "done"} /\ rerank_calls = 1) =>
        /\ rerank_query = query_in
        /\ rerank_query = state.rewritten_queries[1]

\* the rerank service was called in a request whose reformulation differs
\* from the query
C23_Witness ==
    /\ pc = "step3"
    /\ rerank_calls = 1
    /\ ~rewrite_failed
    /\ state.rewritten_queries[2] # query_in
    /\ rerank_query = query_in

\* the passages an index was built from, position by position
IndexedTexts(index) == index[2]

\* C26: whenever bm25_search uses the cached index, the document list it
\* indexes into is the complete list that index was built from, same length
\* and same order, in every interleaving of concurrent first calls.
C26_DocumentsMatchIndex ==
    \A t \in Threads :
        (th_pc[t] = "done" /\ ~th_ret[t].raised) => th_used[t] = IndexedTexts(th_ret[t].index)

----------------------------------------------------------------------------
(* The agent's booking flow *)

\* the latest request was handled by calendar_handler_node in step s
HandledStep(s) ==
    /\ last_request.route = "calendar"
    /\ ~last_request.raised
    /\ last_request.step = s

\* the booking data the latest request left on its thread
StoredBooking == last_request.after.booking_data

C22_ConversationsIsolated ==
    /\ last_request.writers \subseteq {last_request.conv}
    /\ \A t \in DOMAIN checkpoints : Cardinality(checkpoints[t].writers) <= 1

\* booking data under which should_use_calendar continues the booking flow
InBooking(bd) == bd.tag = "dict" /\ GetStep(bd, "") \in {"select", "confirm"}

\* C24: once the handler has handled the confirm step (booked, failed or
\* declined), the booking data stored on the thread is cleared: the next
\* message is routed by its content and a later booking request starts again
\* from fetching slots.
C24_BookingClearedAfterConfirm ==
    HandledStep("confirm") =>
        /\ ~InBooking(StoredBooking)
        /\ GetStep(GetBookingData(last_request.after, EmptyDict), "start") = "start"

\* C25: when the client resends the whole conversation with every request,
\* the history handed to the RAG pipeline is the conversation before the
\* current message: each turn once, in conversation order.
C25_HistoryHasEachTurnOnce ==
    (/\ last_request.route = "rag"
     /\ clients[last_request.conv].kind \in {"thread_all", "chat"}) =>
        last_request.history =
            SubSeq(last_request.conversation, 1, Len(last_request.conversation) - 1)

\* the words the confirm step takes for a yes: ja, yes, y, ok, bekraeft
AffirmativeWords ==
    {<<"j", "a">>, <<"y", "e", "s">>, <<"y">>, <<"o", "k">>,
     <<"b", "e", "k", "r", "ae", "f", "t">>}

\* C27: a request creates a calendar appointment only when the step stored
\* on its thread is 'confirm', a selected slot is stored and the message is
\* one of the affirmative words; it then creates one, for the stored slot.
C27_AppointmentOnlyOnConfirmedYes ==
    last_request.inserted # <<>> =>
        /\ last_request.route = "calendar"
        /\ last_request.before.booking_data.tag = "dict"
        /\ "step" \in last_request.before.booking_data.keys
        /\ last_request.before.booking_data.step = "confirm"
        /\ "selected_slot" \in last_request.before.booking_data.keys
        /\ last_request.inserted = <<last_request.before.booking_data.selected_slot>>
        /\ strip(lower(last_request.text)) \in AffirmativeWords

\* an appointment was created for the slot selected two requests earlier
C27_Witness ==
    /\ last_request.inserted = <<"tue11">>
    /\ calendar_events = <<"tue11">>
    /\ last_request.step = "confirm"
    /\ last_request.text = <<"J", "a", WS>>

\* the messages the latest request sent to the graph
SentMessages ==
    IF clients[last_request.conv].kind = "thread_new"
    THEN <<HumanMessage(last_request.text)>>
    ELSE last_request.conversation

\* the text of the latest message is a decimal number between lo and hi
NumberBetween(lo, hi) ==
    LET u == strip(last_request.text)
    IN  /\ IsDigits(u)
        /\ lo <= DecimalValue(u)
        /\ DecimalValue(u) <= hi

\* C28: in step 'select', an input that is not an integer between 1 and the
\* number of offered slots leaves the stored booking data (step, offered
\* slots, selection) as it was, creates no appointment and adds exactly one
\* assistant message, which asks again.
C28_InvalidSelectionChangesNothing ==
    (/\ HandledStep("select")
     /\ ~NumberBetween(1, Len(last_request.before.booking_data.available_slots))) =>
        /\ StoredBooking = last_request.before.booking_data
        /\ StoredBooking.step = "select"
        /\ last_request.inserted = <<>>
        /\ \E ask \in {<<"[Ugyldigt input]">>, <<"[Ugyldigt valg]">>} :
               last_request.after.messages =
                   last_request.before.messages \o SentMessages \o <<AIMessage(ask)>>

\* a 2 was typed when one slot was offered
C28_Witness ==
    /\ HandledStep("select")
    /\ last_request.text = <<WS, "2">>
    /\ Len(last_request.before.booking_data.available_slots) = 1
    /\ last_request.returned = <<AIMessage(<<"[Ugyldigt valg]">>)>>
    /\ StoredBooking.step = "select"

\* C29: in step 'collect_details', a form with the five required fields and
\* a valid Danish phone number moves the flow to 'confirm_booking' with the
\* booking active and the selected slot kept, with or without notes.
C29_ValidFormAdvances ==
    (/\ cw_pc = "returned"
     /\ cw_state.booking_context.step = "collect_details"
     /\ cw_state.form.kind = "object"
     /\ RequiredFields \subseteq cw_state.form.fields
     /\ MatchesDanishPhone(CleanPhone(cw_state.form.phone))
     /\ ~MentionsCancel(cw_state.form)) =>
        /\ cw_out.booking_active
        /\ cw_out.booking_context.tag = "dict"
        /\ cw_out.booking_context.step = "confirm_booking"
        /\ cw_out.booking_context.selected_slot = cw_state.booking_context.selected_slot

\* C30: RAGWorkflow.run returns a record with the four keys answer,
\* source_url, page_title and description on every path.
C30_RunReturnsFourKeys ==
    rw_pc = "returned" =>
        DOMAIN rw_out = {"answer", "source_url", "page_title", "description"}

====
